---- MODULE Spec2Model ----
(***************************************************************************)
(* The bump allocator that backs external scanners running in WASM         *)
(* (vendor/tree-sitter/src/wasm/stdlib.c) and the tree cursor's frame      *)
(* stack (vendor/tree-sitter/src/tree_cursor.h).                           *)
(*                                                                         *)
(* wasm32 pointers and size_t are unsigned 32-bit words.  A word is kept   *)
(* as a pair <<hi, lo>> of 16-bit halves so that arithmetic modulo 2^32    *)
(* is exact; hi is also the number of the 64 KiB page the address is in.   *)
(***************************************************************************)
EXTENDS Integers, Sequences, FiniteSets, TLC

PAGESIZE == 65536
MAX_HEAP_SIZE == 4194304
HeaderSize == 4

\* Bounds of the exploration.
MaxOps == 3
MaxOpsFit == 4
MaxOpsMF == 4
MaxOpsLifo == 6
MaxOpsRe == 6
MaxOpsTwin == 3
MaxReallocs == 1
MaxResets == 1
MaxPages == 131
MaxNodes == 7

Half == 2^16
Byte == 2^8

----------------------------------------------------------------------------
\* 32-bit words

U(n) == <<(n \div Half) % Half, n % Half>>

NULL == <<0, 0>>

Add(a, b) ==
  LET l == a[2] + b[2]
  IN  <<(a[1] + b[1] + (l \div Half)) % Half, l % Half>>

Sub(a, b) ==
  LET l == a[2] - b[2] + Half
  IN  <<(a[1] - b[1] + Half - 1 + (l \div Half)) % Half, l % Half>>

\* unsigned comparison (pointers, size_t)
Lt(a, b) == a[1] < b[1] \/ (a[1] = b[1] /\ a[2] < b[2])

Le(a, b) == a = b \/ Lt(a, b)

\* signed comparison a > b (ptrdiff_t against int)
Neg(a) == a[1] >= Half \div 2

SignedGt(a, b) ==
  IF Neg(a) = Neg(b) THEN Lt(b, a) ELSE Neg(b)

\* low 16 bits of x * y for 16-bit x, y, without leaving 31 bits
MulLow(x, y) ==
  ((((x * (y \div Byte)) % Byte) * Byte) + x * (y % Byte)) % Half

\* high 16 bits of x * y for 16-bit x, y
MulHigh(x, y) ==
  LET p == x * (y \div Byte)
      q == x * (y % Byte)
  IN  ((p \div Byte) + (((p % Byte) * Byte + q) \div Half)) % Half

\* count * size in size_t
Mul(a, b) ==
  <<(MulHigh(a[2], b[2]) + MulLow(a[1], b[2]) + MulLow(a[2], b[1])) % Half,
    MulLow(a[2], b[2])>>

----------------------------------------------------------------------------
\* Linear memory: the bytes that are not zero, by address.

ReadByte(m, a) == IF a \in DOMAIN m THEN m[a] ELSE 0

WriteByte(m, a, v) ==
  IF v = 0
    THEN [x \in DOMAIN m \ {a} |-> m[x]]
    ELSE [x \in DOMAIN m \cup {a} |-> IF x = a THEN v ELSE m[x]]

\* a size_t load, little-endian
ReadWord(m, a) ==
  <<ReadByte(m, Add(a, U(2))) + Byte * ReadByte(m, Add(a, U(3))),
    ReadByte(m, a) + Byte * ReadByte(m, Add(a, U(1)))>>

\* a size_t store, little-endian
WriteWord(m, a, w) ==
  WriteByte(WriteByte(WriteByte(WriteByte(m,
    a, w[2] % Byte),
    Add(a, U(1)), w[2] \div Byte),
    Add(a, U(2)), w[1] % Byte),
    Add(a, U(3)), w[1] \div Byte)

\* whether the n bytes at a lie inside a memory of the given number of pages
InBounds(pgs, a, n) ==
  LET l == a[2] + n[2]
      h == a[1] + n[1] + (l \div Half)
  IN  h < pgs \/ (h = pgs /\ l % Half = 0)

\* whether address x is one of the n bytes at a
Within(x, a, n) == Lt(Sub(x, a), n)

\* memset(dst, 0, n)
Memset0(m, dst, n) ==
  [x \in {y \in DOMAIN m : ~Within(y, dst, n)} |-> m[x]]

\* memcpy(dst, src, n), as the wasm bulk copy performs it
Memcpy(m, dst, src, n) ==
  LET moved == {y \in DOMAIN m : Within(y, src, n)}
      keep == {y \in DOMAIN m : ~Within(y, dst, n)}
      D == keep \cup {Add(dst, Sub(y, src)) : y \in moved}
  IN  [x \in D |-> IF Within(x, dst, n) THEN m[Add(src, Sub(x, dst))] ELSE m[x]]

----------------------------------------------------------------------------
\* The allocator.  An allocator state s is a record of the three static
\* pointers, the size of linear memory in pages, the memory's bytes, and
\* whether the instance has trapped on an access outside linear memory.
\* Each call yields the state after it, the value returned, and the number
\* of memory-grow calls it made.

\* static Region *heap_end = NULL, *heap_start = NULL, *next = NULL;
Statics(pgs) ==
  [heap_start |-> NULL, next |-> NULL, heap_end |-> NULL,
   pages |-> pgs, mem |-> [x \in {} |-> 0], trap |-> FALSE]

region_for_ptr(ptr) == Sub(ptr, U(HeaderSize))

region_after(self, len) ==
  LET address == Add(Add(self, U(HeaderSize)), len)
      plus3 == Add(address, U(3))
  IN  <<plus3[1], plus3[2] - (plus3[2] % 4)>>

get_heap_end(s) == <<s.pages % Half, 0>>

\* __builtin_wasm_memory_grow(0, n): the host grants it or not; it never
\* grants more than the memory's maximum.
memory_grow(s, n, hostOk) ==
  IF hostOk /\ s.pages + n <= MaxPages
    THEN [ok |-> TRUE, st |-> [s EXCEPT !.pages = @ + n]]
    ELSE [ok |-> FALSE, st |-> s]

grow_heap(s, size, hostOk) ==
  LET new_page_count == Sub(size, U(1))[1] + 1
  IN  memory_grow(s, new_page_count, hostOk)

\* a faulty variant: next is left where it was
reset_heap_keeps_next(s, new_heap_start) ==
  [s EXCEPT !.heap_start = new_heap_start,
            !.heap_end = get_heap_end(s)]

reset_heap(s, new_heap_start) ==
  [s EXCEPT !.heap_start = new_heap_start,
            !.next = new_heap_start,
            !.heap_end = get_heap_end(s)]

\* lines 65-69 of malloc: write the header at next and bump next
malloc_take(s, size, region_end, grew) ==
  IF ~InBounds(s.pages, s.next, U(HeaderSize))
    THEN [st |-> [s EXCEPT !.trap = TRUE], ret |-> NULL, grew |-> grew]
    ELSE [st |-> [s EXCEPT !.mem = WriteWord(s.mem, s.next, size),
                           !.next = region_end],
          ret |-> Add(s.next, U(HeaderSize)),
          grew |-> grew]

\* a faulty variant: memory is grown before the ceiling is tested
malloc_grow_first(s, size, hostOk) ==
  LET region_end == region_after(s.next, size)
  IN  IF Lt(s.heap_end, region_end)
        THEN LET g == grow_heap(s, size, hostOk)
             IN  IF ~g.ok \/ SignedGt(Sub(region_end, s.heap_start),
                                      U(MAX_HEAP_SIZE))
                   THEN [st |-> g.st, ret |-> NULL, grew |-> 1]
                   ELSE malloc_take(
                          [g.st EXCEPT !.heap_end = get_heap_end(g.st)],
                          size, region_end, 1)
        ELSE malloc_take(s, size, region_end, 0)

malloc(s, size, hostOk) ==
  LET region_end == region_after(s.next, size)
  IN  IF Lt(s.heap_end, region_end)
        THEN IF SignedGt(Sub(region_end, s.heap_start), U(MAX_HEAP_SIZE))
               THEN [st |-> s, ret |-> NULL, grew |-> 0]
               ELSE LET g == grow_heap(s, size, hostOk)
                    IN  IF ~g.ok
                          THEN [st |-> s, ret |-> NULL, grew |-> 1]
                          ELSE malloc_take(
                                 [g.st EXCEPT !.heap_end = get_heap_end(g.st)],
                                 size, region_end, 1)
        ELSE malloc_take(s, size, region_end, 0)

\* a faulty variant: every free rewinds next to the freed region
free_any(s, ptr) ==
  IF ptr = NULL
    THEN [st |-> s, ret |-> NULL, grew |-> 0]
    ELSE [st |-> [s EXCEPT !.next = region_for_ptr(ptr)],
          ret |-> NULL, grew |-> 0]

free(s, ptr) ==
  IF ptr = NULL
    THEN [st |-> s, ret |-> NULL, grew |-> 0]
    ELSE LET region == region_for_ptr(ptr)
         IN  IF ~InBounds(s.pages, region, U(HeaderSize))
               THEN [st |-> [s EXCEPT !.trap = TRUE], ret |-> NULL, grew |-> 0]
               ELSE LET region_end == region_after(region, ReadWord(s.mem, region))
                    IN  [st |-> IF region_end = s.next
                                  THEN [s EXCEPT !.next = region]
                                  ELSE s,
                         ret |-> NULL, grew |-> 0]

calloc(s, count, size, hostOk) ==
  LET n == Mul(count, size)
      r == malloc(s, n, hostOk)
  IN  IF r.st.trap
        THEN r
        ELSE IF ~InBounds(r.st.pages, r.ret, n)
               THEN [r EXCEPT !.st.trap = TRUE, !.ret = NULL]
               ELSE [r EXCEPT !.st.mem = Memset0(@, r.ret, n)]

\* a faulty variant: the last region is not rewound before it is allocated again
realloc_no_rewind(s, ptr, new_size, hostOk) ==
  IF ptr = NULL
    THEN malloc(s, new_size, hostOk)
    ELSE LET r == malloc(s, new_size, hostOk)
             n == ReadWord(r.st.mem, region_for_ptr(ptr))
         IN  IF r.st.trap \/ ~InBounds(r.st.pages, r.ret, n)
                          \/ ~InBounds(r.st.pages, ptr, n)
               THEN [r EXCEPT !.st.trap = TRUE, !.ret = NULL]
               ELSE [r EXCEPT !.st.mem = Memcpy(@, r.ret, ptr, n)]

realloc(s, ptr, new_size, hostOk) ==
  IF ptr = NULL
    THEN malloc(s, new_size, hostOk)
    ELSE LET region == region_for_ptr(ptr)
         IN  IF ~InBounds(s.pages, region, U(HeaderSize))
               THEN [st |-> [s EXCEPT !.trap = TRUE], ret |-> NULL, grew |-> 0]
               ELSE LET region_end == region_after(region, ReadWord(s.mem, region))
                    IN  IF region_end = s.next
                          THEN malloc([s EXCEPT !.next = region], new_size, hostOk)
                          ELSE LET r == malloc(s, new_size, hostOk)
                                   \* region->size, read after malloc returned
                                   n == ReadWord(r.st.mem, region)
                               IN  IF r.st.trap
                                     THEN r
                                     ELSE IF ~InBounds(r.st.pages, r.ret, n)
                                               \/ ~InBounds(r.st.pages, ptr, n)
                                            THEN [r EXCEPT !.st.trap = TRUE, !.ret = NULL]
                                            ELSE [r EXCEPT !.st.mem =
                                                    Memcpy(@, r.ret, ptr, n)]

----------------------------------------------------------------------------
\* The running instance

VARIABLES
  heap_start, next, heap_end,  \* the allocator's statics
  pages,                       \* __builtin_wasm_memory_size(0)
  mem,                         \* linear memory
  trap,                        \* the instance trapped
  started,                     \* reset_heap has been called
  allocs,                      \* the blocks handed out since reset_heap, in order
  call,                        \* the last call: arguments, result, state before
  lifo,                        \* the current run of mallocs and reverse frees
  twin,                        \* whether a second allocator is run alongside
  fresh,                       \* that allocator: new at reset_heap, given the same calls
  fill,                        \* the block the scanner is about to write to
  ops                          \* calls made

VARIABLES
  visible,                     \* the tree: which subtrees the grammar shows
  stack,                       \* TreeCursor.stack
  origin,                      \* the node the cursor was initialised at
  cur,                         \* the node a walk of the tree itself has reached
  seen                         \* the results the moves have returned

cursor_vars == <<visible, stack, origin, cur, seen>>

alloc_vars == <<heap_start, next, heap_end, pages, mem, trap, started,
                allocs, call, lifo, twin, fresh, fill, ops>>

State ==
  [heap_start |-> heap_start, next |-> next, heap_end |-> heap_end,
   pages |-> pages, mem |-> mem, trap |-> trap]

SetState(s) ==
  /\ heap_start' = s.heap_start
  /\ next' = s.next
  /\ heap_end' = s.heap_end
  /\ pages' = s.pages
  /\ mem' = s.mem
  /\ trap' = s.trap

\* Inputs
InitPages == {2, 70}

Starts(pgs) ==
  IF pgs = 2 THEN {<<1, 0>>, <<1, 2>>, <<pgs, 0>>} ELSE {<<1, 0>>}

FitSizes ==
  {U(0), U(1), U(PAGESIZE), U(MAX_HEAP_SIZE - 4), U(MAX_HEAP_SIZE)}

WrapSizes == {Sub(NULL, U(8)), Sub(NULL, U(4))}

AnySizes == FitSizes \cup WrapSizes

LifoSizes == {U(0), U(1), Sub(NULL, U(8))}

ReMallocSizes == {U(1)}

TwinSizes == {U(1), U(PAGESIZE)}

TwinCallocArgs == {<<U(3), U(1)>>, <<U(1), U(MAX_HEAP_SIZE)>>}

ReSizes == {U(0), U(PAGESIZE), U(MAX_HEAP_SIZE)}

CallocArgs ==
  {<<U(1), U(1)>>, <<U(3), U(1)>>, <<U(1), U(MAX_HEAP_SIZE)>>,
   <<U(PAGESIZE), U(PAGESIZE)>>}

NoCall ==
  [op |-> "none", idx |-> 0, ptr |-> NULL, size |-> NULL, count |-> NULL,
   host |-> FALSE, ret |-> NULL, fret |-> NULL, grew |-> 0,
   pre |-> Statics(0), preAllocs |-> <<>>,
   prev |-> [op |-> "none", ret |-> NULL, grew |-> 0, after |-> "other"],
   reuse |-> NULL, pend |-> NULL]

Idle == [phase |-> "idle", base |-> NULL, stack |-> <<>>]

Live == {i \in DOMAIN allocs : allocs[i].live}

AllocInit ==
  /\ \E pgs \in InitPages :
       /\ heap_start = Statics(pgs).heap_start
       /\ next = Statics(pgs).next
       /\ heap_end = Statics(pgs).heap_end
       /\ pages = pgs
       /\ mem = Statics(pgs).mem
       /\ trap = FALSE
       /\ fresh = Statics(pgs)
  /\ started = FALSE
  /\ allocs = <<>>
  /\ call = NoCall
  /\ lifo = Idle
  /\ fill = 0
  /\ ops = [calls |-> 0, resets |-> 0, reallocs |-> 0]

\* what every call records
Called(name, i, p, cnt, sz, hostOk, r, rf) ==
  /\ SetState(r.st)
  /\ fresh' = IF twin THEN rf.st ELSE fresh
  /\ UNCHANGED <<twin, cursor_vars>>
  /\ call' = [op |-> name, idx |-> i, ptr |-> p, size |-> sz, count |-> cnt,
              host |-> hostOk,
              ret |-> r.ret, fret |-> IF twin THEN rf.ret ELSE NULL, grew |-> r.grew,
              pre |-> State, preAllocs |-> allocs,
              prev |-> [op |-> call.op, ret |-> call.ret, grew |-> call.grew,
                        after |-> IF /\ call.prev.op = "malloc"
                                     /\ call.prev.ret = NULL
                                     /\ call.prev.grew = 0
                                    THEN "ceiling" ELSE "other"],
              reuse |-> call.pend,
              pend |-> IF name = "free" /\ i # 0 /\ i = Len(allocs) THEN p
                       ELSE IF name = "malloc" /\ r.ret = NULL /\ ~r.st.trap
                         THEN call.pend
                         ELSE NULL]
  /\ ops' = IF name = "reset_heap" THEN [ops EXCEPT !.resets = @ + 1]
            ELSE IF name = "store" THEN ops
            ELSE IF name = "realloc"
              THEN [ops EXCEPT !.calls = @ + 1, !.reallocs = @ + 1]
              ELSE [ops EXCEPT !.calls = @ + 1]

Ready == started /\ ~trap

PtrOf(i) == IF i = 0 THEN NULL ELSE allocs[i].ptr

Block(p, sz) == [ptr |-> p, size |-> sz, live |-> TRUE, leaked |-> FALSE]

\* the instance is (re)instantiated with its heap at a
Reset(a) ==
  /\ ~trap
  /\ LET s == reset_heap(State, a)
     IN  Called("reset_heap", 0, a, NULL, NULL, FALSE,
                [st |-> s, ret |-> NULL, grew |-> 0],
                [st |-> [s EXCEPT !.mem = Statics(0).mem], ret |-> NULL, grew |-> 0])
  /\ started' = TRUE
  /\ allocs' = <<>>
  /\ lifo' = Idle
  /\ fill' = 0

Malloc(size, hostOk) ==
  /\ Ready
  /\ LET r == malloc(State, size, hostOk)
     IN  /\ Called("malloc", 0, NULL, NULL, size, hostOk, r, malloc(fresh, size, hostOk))
         /\ allocs' = IF r.ret # NULL THEN Append(allocs, Block(r.ret, size))
                                       ELSE allocs
         /\ lifo' = IF r.ret = NULL THEN Idle
                    ELSE IF lifo.phase = "alloc"
                      THEN [lifo EXCEPT !.stack = Append(@, Len(allocs) + 1)]
                      ELSE [phase |-> "alloc", base |-> next,
                            stack |-> <<Len(allocs) + 1>>]
         /\ fill' = IF r.ret # NULL THEN Len(allocs) + 1 ELSE 0
  /\ UNCHANGED started

Free(i) ==
  /\ Ready
  /\ Called("free", i, PtrOf(i), NULL, NULL, FALSE,
            free(State, PtrOf(i)), free(fresh, PtrOf(i)))
  /\ allocs' = IF i = 0 THEN allocs
               ELSE [allocs EXCEPT ![i].live = FALSE,
                                   ![i].leaked = \E j \in Live : j > i]
  /\ lifo' = IF /\ lifo.phase \in {"alloc", "free"}
                /\ lifo.stack # <<>>
                /\ lifo.stack[Len(lifo.stack)] = i
               THEN [lifo EXCEPT
                       !.stack = SubSeq(@, 1, Len(@) - 1),
                       !.phase = IF Len(lifo.stack) = 1 THEN "done" ELSE "free"]
               ELSE Idle
  /\ fill' = 0
  /\ UNCHANGED started

Calloc(count, size, hostOk) ==
  /\ Ready
  /\ LET r == calloc(State, count, size, hostOk)
     IN  /\ Called("calloc", 0, NULL, count, size, hostOk, r,
                   calloc(fresh, count, size, hostOk))
         /\ allocs' = IF r.ret # NULL
                        THEN Append(allocs, Block(r.ret, Mul(count, size)))
                        ELSE allocs
         /\ fill' = IF r.ret # NULL THEN Len(allocs) + 1 ELSE 0
  /\ lifo' = Idle
  /\ UNCHANGED started

\* a failed realloc leaves the caller its block; a successful one replaces it
Realloc(i, new_size, hostOk) ==
  /\ Ready
  /\ LET r == realloc(State, PtrOf(i), new_size, hostOk)
     IN  /\ Called("realloc", i, PtrOf(i), NULL, new_size, hostOk, r,
                   realloc(fresh, PtrOf(i), new_size, hostOk))
         /\ allocs' = IF r.ret = NULL THEN allocs
                      ELSE Append(IF i = 0 THEN allocs
                                  ELSE [allocs EXCEPT ![i].live = FALSE],
                                  Block(r.ret, new_size))
         /\ fill' = IF r.ret # NULL THEN Len(allocs) + 1 ELSE 0
  /\ lifo' = Idle
  /\ UNCHANGED started

\* the scanner writes the first and the last byte of the block it was
\* given; the byte written tells which block it was written to
Store(i) ==
  /\ Ready
  /\ LET b == allocs[i]
         last == Add(b.ptr, Sub(b.size, U(1)))
         w(s) == IF b.size = NULL THEN s
                 ELSE IF InBounds(s.pages, b.ptr, U(1))
                           /\ InBounds(s.pages, last, U(1))
                   THEN [s EXCEPT !.mem = WriteByte(WriteByte(@, b.ptr, i), last, i)]
                   ELSE [s EXCEPT !.trap = TRUE]
     IN  Called("store", i, b.ptr, NULL, NULL, FALSE,
                [st |-> w(State), ret |-> NULL, grew |-> 0],
                [st |-> w(fresh), ret |-> NULL, grew |-> 0])
  /\ lifo' = Idle
  /\ fill' = 0
  /\ UNCHANGED <<started, allocs>>

\* the instance is instantiated
DoStart == ~started /\ \E a \in Starts(pages) : Reset(a)

\* the instance is instantiated again
DoStartRe == ~started /\ pages = 2 /\ \E a \in {<<1, 0>>, <<1, 2>>} : Reset(a)

DoRestart ==
  started /\ ops.resets <= MaxResets /\ \E a \in Starts(pages) : Reset(a)

DoMalloc == \E size \in AnySizes, hostOk \in BOOLEAN : Malloc(size, hostOk)

DoMallocFit == \E size \in FitSizes, hostOk \in BOOLEAN : Malloc(size, hostOk)

DoMallocLifo == \E size \in LifoSizes, hostOk \in BOOLEAN : Malloc(size, hostOk)

DoMallocRe == \E size \in ReMallocSizes, hostOk \in BOOLEAN : Malloc(size, hostOk)

DoMallocTwin == \E size \in TwinSizes, hostOk \in BOOLEAN : Malloc(size, hostOk)

DoCallocTwin ==
  \E a \in TwinCallocArgs, hostOk \in BOOLEAN : Calloc(a[1], a[2], hostOk)

DoReallocTwin ==
  \E i \in Live \cup {0}, hostOk \in BOOLEAN : Realloc(i, U(PAGESIZE), hostOk)

DoFree == \E i \in Live \cup {0} : Free(i)

DoCalloc ==
  \E a \in CallocArgs, hostOk \in BOOLEAN : Calloc(a[1], a[2], hostOk)

DoRealloc ==
  \E i \in Live \cup {0}, size \in ReSizes, hostOk \in BOOLEAN :
    Realloc(i, size, hostOk)

DoStore == fill # 0 /\ Store(fill)

----------------------------------------------------------------------------
\* The tree cursor.  A tree of MaxNodes subtrees, numbered level by level,
\* each with up to three children; a leaf spans one byte.

Nodes == 1..MaxNodes

child_count(n) ==
  IF 3 * n - 1 > MaxNodes THEN 0
  ELSE IF 3 * n + 1 <= MaxNodes THEN 3 ELSE MaxNodes - (3 * n - 2)

\* the k-th child, k from 0
child(n, k) == 3 * n - 1 + k

parent(n) == (n + 1) \div 3

index_in_parent(n) == n - (3 * parent(n) - 1)

RECURSIVE total_bytes(_)
total_bytes(n) ==
  IF child_count(n) = 0 THEN 1
  ELSE LET RECURSIVE upto(_)
           upto(k) == IF k = 0 THEN 0
                      ELSE upto(k - 1) + total_bytes(child(n, k - 1))
       IN  upto(child_count(n))

RECURSIVE visible_child_count(_)
visible_child_count(n) ==
  LET RECURSIVE upto(_)
      upto(k) ==
        IF k = 0 THEN 0
        ELSE upto(k - 1)
               + (IF visible[child(n, k - 1)] THEN 1
                  ELSE visible_child_count(child(n, k - 1)))
  IN  upto(child_count(n))

\* a child the cursor stops at: visible, or hidden with visible children
Shown(n) == visible[n] \/ visible_child_count(n) > 0

array_back(a) == a[Len(a)]

\* a faulty variant: the first entry of the stack
first_entry_subtree(stk) == stk[1].subtree

ts_tree_cursor_current_subtree(stk) == array_back(stk).subtree

\* the entry of the k-th child below the entry e, its position found by
\* adding the extents of the children before it
RECURSIVE child_entry(_, _)
child_entry(e, k) ==
  IF k = 0
    THEN [subtree |-> child(e.subtree, 0), position |-> e.position,
          child_index |-> 0]
    ELSE LET b == child_entry(e, k - 1)
         IN  [subtree |-> child(e.subtree, k),
              position |-> b.position + total_bytes(b.subtree),
              child_index |-> k]

\* the children of n from index k on that the cursor stops at
ShownFrom(n, k) == {j \in k..(child_count(n) - 1) : Shown(child(n, j))}

Min(S) == CHOOSE x \in S : \A y \in S : x <= y

StepTo(n) == IF visible[n] THEN "TreeCursorStepVisible" ELSE "TreeCursorStepHidden"

ts_tree_cursor_init(n) ==
  <<[subtree |-> n, position |-> 0, child_index |-> 0]>>

ts_tree_cursor_goto_first_child_internal(stk) ==
  LET e == array_back(stk)
      S == ShownFrom(e.subtree, 0)
  IN  IF S = {} THEN [stack |-> stk, step |-> "TreeCursorStepNone"]
      ELSE LET c == child_entry(e, Min(S))
           IN  [stack |-> Append(stk, c), step |-> StepTo(c.subtree)]

RECURSIVE goto_sibling(_, _)
goto_sibling(stk, initial) ==
  IF Len(stk) <= 1 THEN [stack |-> initial, step |-> "TreeCursorStepNone"]
  ELSE LET entry == array_back(stk)
           rest == SubSeq(stk, 1, Len(stk) - 1)
           S == ShownFrom(array_back(rest).subtree, entry.child_index + 1)
       IN  IF visible[entry.subtree] /\ Len(rest) + 1 < Len(initial)
             THEN [stack |-> initial, step |-> "TreeCursorStepNone"]
           ELSE IF S # {}
             THEN LET c == child_entry(array_back(rest), Min(S))
                  IN  [stack |-> Append(rest, c), step |-> StepTo(c.subtree)]
           ELSE goto_sibling(rest, initial)

ts_tree_cursor_goto_next_sibling_internal(stk) == goto_sibling(stk, stk)

ts_tree_cursor_is_entry_visible(stk, i) == i = 1 \/ visible[stk[i].subtree]

ts_tree_cursor_goto_parent(stk) ==
  LET S == {i \in 1..(Len(stk) - 1) : ts_tree_cursor_is_entry_visible(stk, i)}
  IN  IF S = {} THEN [stack |-> stk, moved |-> FALSE]
      ELSE [stack |-> SubSeq(stk, 1, CHOOSE i \in S : \A j \in S : j <= i),
            moved |-> TRUE]

\* the same moves made on the tree itself, by its parent links
FirstShownChild(n) ==
  IF ShownFrom(n, 0) = {} THEN n ELSE child(n, Min(ShownFrom(n, 0)))

RECURSIVE NextShownSibling(_, _)
NextShownSibling(n, from) ==
  IF n = origin THEN from
  ELSE LET S == ShownFrom(parent(n), index_in_parent(n) + 1)
       IN  IF S # {} THEN child(parent(n), Min(S))
           ELSE IF visible[parent(n)] THEN from
           ELSE NextShownSibling(parent(n), from)

RECURSIVE ShownParent(_)
ShownParent(n) ==
  IF n = origin THEN n
  ELSE IF parent(n) = origin \/ visible[parent(n)] THEN parent(n)
  ELSE ShownParent(parent(n))

CursorIdle ==
  /\ stack = <<>>
  /\ origin = 0
  /\ cur = 0
  /\ seen = {}

CursorInit(n) ==
  /\ stack' = ts_tree_cursor_init(n)
  /\ origin' = n
  /\ cur' = n
  /\ seen' = {}
  /\ UNCHANGED <<visible, alloc_vars>>

GotoFirstChild ==
  /\ origin # 0
  /\ LET r == ts_tree_cursor_goto_first_child_internal(stack)
     IN  stack' = r.stack /\ seen' = seen \cup {r.step}
  /\ cur' = FirstShownChild(cur)
  /\ UNCHANGED <<visible, origin, alloc_vars>>

GotoNextSibling ==
  /\ origin # 0
  /\ LET r == ts_tree_cursor_goto_next_sibling_internal(stack)
     IN  stack' = r.stack /\ seen' = seen \cup {r.step}
  /\ cur' = NextShownSibling(cur, cur)
  /\ UNCHANGED <<visible, origin, alloc_vars>>

GotoParent ==
  /\ origin # 0
  /\ LET r == ts_tree_cursor_goto_parent(stack)
     IN  stack' = r.stack
           /\ seen' = seen \cup {IF r.moved THEN "parent" ELSE "no parent"}
  /\ cur' = ShownParent(cur)
  /\ UNCHANGED <<visible, origin, alloc_vars>>

DoCursorInit == \E n \in Nodes : CursorInit(n)

vars == <<alloc_vars, cursor_vars>>

NoTree == CursorIdle /\ visible = [n \in Nodes |-> TRUE]

Init == AllocInit /\ twin = FALSE /\ NoTree

InitTwin == AllocInit /\ twin = TRUE /\ NoTree

InitCursor ==
  /\ AllocInit /\ pages = 2 /\ twin = FALSE
  /\ CursorIdle
  /\ visible \in [Nodes -> BOOLEAN]
  /\ visible[1]

NextCursor == DoCursorInit \/ GotoFirstChild \/ GotoNextSibling \/ GotoParent

SpecCursor == InitCursor /\ [][NextCursor]_vars

\* every call of the allocator, every size_t size
Next ==
  \/ DoStore
  \/ fill = 0 /\ (DoStart \/ DoRestart)
  \/ fill = 0 /\ ops.calls < MaxOps
       /\ (DoMalloc \/ DoFree \/ DoCalloc \/ DoRealloc)

Spec == Init /\ [][Next]_vars

\* malloc and free alone, every size_t size
NextMF ==
  \/ DoStart
  \/ ops.calls < MaxOpsMF /\ (DoMalloc \/ DoFree)

SpecMF == Init /\ [][NextMF]_vars

\* malloc and free alone, requests of at most MAX_HEAP_SIZE
NextFit ==
  \/ DoStart
  \/ ops.calls < MaxOpsFit /\ (DoMallocFit \/ DoFree)

SpecFit == Init /\ [][NextFit]_vars

\* runs of mallocs and frees
NextLifo ==
  \/ DoStart
  \/ ops.calls < MaxOpsLifo /\ (DoMallocLifo \/ DoFree)

SpecLifo == Init /\ [][NextLifo]_vars

\* malloc, free and realloc
NextRe ==
  \/ DoStartRe
  \/ DoStore
  \/ fill = 0 /\ ops.calls < MaxOpsRe
       /\ (DoMallocRe \/ DoFree \/ (ops.reallocs < MaxReallocs /\ DoRealloc))

SpecRe == Init /\ [][NextRe]_vars

\* every call, with a new allocator run alongside from each reset_heap
NextTwin ==
  \/ DoStore
  \/ fill = 0 /\ (DoStart \/ DoRestart)
  \/ fill = 0 /\ ops.calls < MaxOpsTwin
       /\ (DoMallocTwin \/ DoFree \/ DoCallocTwin \/ DoReallocTwin)

SpecTwin == InitTwin /\ [][NextTwin]_vars

----------------------------------------------------------------------------
\* Properties

Returned == call.ret # NULL /\ ~trap

ReturnedNull == call.ret = NULL /\ ~trap

BlockEnd(b) == Add(b.ptr, b.size)

\* C1: Stack discipline: N successful mallocs of arbitrary sizes followed
\* by the free of the N pointers in reverse order leave next where it was
\* before the first malloc.
C1_StackDiscipline == lifo.phase = "done" => next = lifo.base

\* C2: after any interleaving of malloc (requests of at most
\* MAX_HEAP_SIZE) and free, each pointer freed at most once in any order,
\* the byte ranges [p, p+size) of two live blocks are disjoint and no live
\* block's header or data lies at or above next.
C2_LiveBlocksDisjoint ==
  /\ \A i, j \in Live :
       i # j => \/ Le(BlockEnd(allocs[i]), allocs[j].ptr)
                \/ Le(BlockEnd(allocs[j]), allocs[i].ptr)
  /\ \A i \in Live :
       /\ Le(region_for_ptr(allocs[i].ptr), allocs[i].ptr)
       /\ Le(allocs[i].ptr, BlockEnd(allocs[i]))
       /\ Le(BlockEnd(allocs[i]), next)

\* a block was freed out of order, and a later malloc succeeded beside two
\* blocks still live
C2_Witness ==
  /\ call.op = "malloc" /\ Returned
  /\ Cardinality(Live) >= 2
  /\ \E i \in DOMAIN allocs : allocs[i].leaked

\* what malloc computes from the state before the call
RegionEnd == region_after(call.pre.next, call.size)

OverEnd == Lt(call.pre.heap_end, RegionEnd)

OverCeiling ==
  SignedGt(Sub(RegionEnd, call.pre.heap_start), U(MAX_HEAP_SIZE))

Unchanged == State = call.pre /\ allocs = call.preAllocs

C4_FreeLastRewinds ==
  /\ (call.op = "free" /\ call.idx # 0 /\ call.idx = Len(allocs) /\ ~trap)
       => next = region_for_ptr(call.ptr)
  /\ (call.op = "malloc" /\ Returned /\ call.reuse # NULL)
       => call.ret = call.reuse

\* whether byte x belongs to block b, header included
InBlock(x, b) ==
  Within(x, region_for_ptr(b.ptr), U(HeaderSize)) \/ Within(x, b.ptr, b.size)

Overlap(b, c) ==
  \/ InBlock(region_for_ptr(c.ptr), b)
  \/ c.size # NULL /\ InBlock(c.ptr, b)
  \/ InBlock(region_for_ptr(b.ptr), c)
  \/ b.size # NULL /\ InBlock(b.ptr, c)

\* C5: free of a live block that a later live block follows, and
\* free(NULL), change neither heap_start, next, heap_end nor memory; no
\* later malloc hands out memory of a block freed that way.
C5_FreeEarlierIsNoop ==
  /\ (/\ call.op = "free"
      /\ \/ call.idx = 0
         \/ \E j \in DOMAIN call.preAllocs :
              j > call.idx /\ call.preAllocs[j].live)
       => State = call.pre
  /\ (call.op = "malloc" /\ Returned)
       => \A i \in DOMAIN call.preAllocs :
            call.preAllocs[i].leaked
              => ~Overlap(call.preAllocs[i], Block(call.ret, call.size))

\* what realloc computes from the state before the call
ReRegion == region_for_ptr(call.ptr)

EndsAtNext ==
  region_after(ReRegion, ReadWord(call.pre.mem, ReRegion)) = call.pre.next

\* the block is the most recently allocated of the live blocks
LastLive ==
  /\ call.idx \in DOMAIN call.preAllocs
  /\ \A j \in DOMAIN call.preAllocs : call.preAllocs[j].live => j <= call.idx

\* the same pointer comes back, memory differs in the block's header
\* alone, which holds the new size, and next is the aligned end of the
\* block at its new size
InPlace ==
  /\ call.ret = call.ptr
  /\ mem = WriteWord(call.pre.mem, ReRegion, call.size)
  /\ next = region_after(ReRegion, call.size)
  /\ heap_start = call.pre.heap_start

LikeMalloc ==
  LET m == malloc(call.pre, call.size, call.host)
  IN  State = m.st /\ call.ret = m.ret /\ call.grew = m.grew

\* C6 as claimed: realloc of the most recently allocated live block, when
\* the new size fits, returns the same pointer, copies nothing, records
\* the new size and puts next at the aligned end of p + new_size;
\* realloc(NULL, n) is malloc(n).
C6_MostRecentLiveInPlace ==
  call.op = "realloc" =>
    /\ call.idx = 0 => LikeMalloc
    /\ (call.idx # 0 /\ LastLive /\ Returned) => InPlace

\* C6 as amended: the same of the block whose region, by the size in its
\* header, ends at next.
C6_LastRegionInPlace ==
  call.op = "realloc" =>
    /\ call.idx = 0 => LikeMalloc
    /\ (call.idx # 0 /\ EndsAtNext /\ Returned) => InPlace

\* the last region, holding the scanner's bytes, is extended in place
\* after memory grew, beside another live block
C6_Witness ==
  /\ call.op = "realloc" /\ call.idx # 0 /\ EndsAtNext /\ Returned
  /\ call.grew = 1
  /\ call.ptr \in DOMAIN call.pre.mem
  /\ Cardinality(Live) >= 2

\* C7: after any calls, reset_heap(a) sets heap_start = next = a and
\* heap_end to the end of linear memory; no block is allocated, the next
\* successful malloc returns a + sizeof(header), and every call returns
\* what a new allocator started at a returns for the same calls.
C7_ResetEmptiesHeap ==
  /\ call.op = "reset_heap" =>
       /\ heap_start = call.ptr /\ next = call.ptr
       /\ heap_end = <<pages, 0>>
  /\ (call.op = "malloc" /\ Returned /\ call.preAllocs = <<>>) =>
       call.ret = Add(heap_start, U(HeaderSize))
  /\ started =>
       /\ call.ret = call.fret
       /\ <<heap_start, next, heap_end, pages, trap>> =
            <<fresh.heap_start, fresh.next, fresh.heap_end, fresh.pages,
              fresh.trap>>

\* after blocks were allocated and the heap reset again, over memory that
\* still holds the old headers and bytes, a malloc follows an earlier one
C7_Witness ==
  /\ ops.resets = 2
  /\ call.op = "malloc" /\ Returned /\ call.preAllocs # <<>>
  /\ mem # fresh.mem

\* C8: in every state after reset_heap(a), next - heap_start is at most
\* MAX_HEAP_SIZE.
C8_HeapWithinCeiling ==
  started => Le(Sub(next, heap_start), U(MAX_HEAP_SIZE))

\* C10: in every state after reset_heap(a), a at most the end of memory,
\* heap_start <= next <= heap_end: the region of every successful malloc
\* ends at or below heap_end, also after memory was grown by the pages
\* grow_heap asks for.
C10_BlocksInsideMemory ==
  (started /\ ~trap) => (Le(heap_start, next) /\ Le(next, heap_end))

\* C9: once the cursor is initialised, after any descend, advance and
\* ascend moves, whatever they return, the stack is not empty, the current
\* subtree is that of the last frame, and each frame's subtree is the child
\* of the frame before it found at the frame's child_index.
C9_CursorPath ==
  origin # 0 =>
    /\ Len(stack) >= 1
    /\ ts_tree_cursor_current_subtree(stack) = cur
    /\ stack[1].subtree = origin
    /\ \A i \in 1..(Len(stack) - 1) :
         /\ stack[i + 1].child_index < child_count(stack[i].subtree)
         /\ stack[i + 1].subtree = child(stack[i].subtree, stack[i + 1].child_index)
         /\ parent(stack[i + 1].subtree) = stack[i].subtree

\* three frames deep below a hidden subtree, every kind of result returned
C9_Witness ==
  /\ Len(stack) = 3
  /\ ~visible[stack[2].subtree]
  /\ seen = {"TreeCursorStepNone", "TreeCursorStepHidden",
             "TreeCursorStepVisible", "parent", "no parent"}

\* C11: a realloc(p, new_size) that returns NULL leaves heap_start, next
\* and heap_end as they were and p's header and bytes as they were, whether
\* or not p is the last block; no later malloc returns memory of a block
\* that is still live.
C11_FailedReallocKeepsBlock ==
  /\ (call.op = "realloc" /\ call.idx # 0 /\ ReturnedNull) =>
       /\ <<heap_start, next, heap_end>> =
            <<call.pre.heap_start, call.pre.next, call.pre.heap_end>>
       /\ ReadWord(mem, ReRegion) = ReadWord(call.pre.mem, ReRegion)
       /\ \A a \in DOMAIN mem \cup DOMAIN call.pre.mem :
            Within(a, call.ptr, allocs[call.idx].size)
              => ReadByte(mem, a) = ReadByte(call.pre.mem, a)
  /\ (call.op = "malloc" /\ Returned) =>
       \A i \in DOMAIN call.preAllocs :
         call.preAllocs[i].live
           => ~Overlap(call.preAllocs[i], Block(call.ret, call.size))

\* what the malloc inside calloc does, from the state before the call
CallocMalloc == malloc(call.pre, Mul(call.count, call.size), call.host)

\* C12: a calloc(count, size) whose allocation fails returns NULL and
\* leaves every byte of memory as it was; one that succeeds returns
\* count * size bytes, all zero, with next and heap_end as malloc of
\* count * size leaves them.
C12_CallocFailsCleanly ==
  call.op = "calloc" =>
    /\ CallocMalloc.ret = NULL =>
         (ReturnedNull /\ mem = call.pre.mem /\ State = call.pre)
    /\ CallocMalloc.ret # NULL =>
         /\ Returned /\ call.ret = CallocMalloc.ret
         /\ next = CallocMalloc.st.next /\ heap_end = CallocMalloc.st.heap_end
         /\ \A a \in DOMAIN mem : ~Within(a, call.ret, Mul(call.count, call.size))
         \* two factors of 2^16 or more have no product in size_t
         /\ ~(call.count[1] > 0 /\ call.size[1] > 0)

\* what the malloc inside realloc does, from the state before the call
ReMalloc == malloc(call.pre, call.size, call.host)

\* a block allocated after the one the call is about is live
LaterLive ==
  \E j \in DOMAIN call.preAllocs : j > call.idx /\ call.preAllocs[j].live

OldSize == call.preAllocs[call.idx].size

MinSize == IF Lt(OldSize, call.size) THEN OldSize ELSE call.size

\* C13: realloc(p, new_size) of a live block that is not the last one,
\* when the allocation succeeds, returns q # p at the former next; the
\* first min(old_size, new_size) bytes of q are those of p, and memory
\* changes nowhere but in q's header and in [q, q + new_size).
C13_ReallocMovesWithoutDamage ==
  (call.op = "realloc" /\ call.idx # 0 /\ LaterLive /\ ReMalloc.ret # NULL) =>
    /\ Returned
    /\ call.ret # call.ptr
    /\ call.ret = Add(call.pre.next, U(HeaderSize))
    /\ \A a \in DOMAIN call.pre.mem :
         Within(a, call.ptr, MinSize)
           => ReadByte(mem, Add(call.ret, Sub(a, call.ptr))) = call.pre.mem[a]
    /\ \A a \in DOMAIN mem \cup DOMAIN call.pre.mem :
         (~Within(a, call.pre.next, U(HeaderSize)) /\ ~Within(a, call.ret, call.size))
           => ReadByte(mem, a) = ReadByte(call.pre.mem, a)

\* C14: for every size in [0, 2^32), malloc(size) returns NULL, or a
\* pointer p with p + size not wrapping around 2^32 and next above where
\* it was.
C14_NoWraparound ==
  (call.op = "malloc" /\ Returned) =>
    /\ Le(call.ret, Add(call.ret, call.size))
    /\ Lt(call.pre.next, next)

Aligned(a) == a[2] % 4 = 0

\* C15: when reset_heap was given a 4-byte-aligned address, next is
\* 4-byte aligned; every pointer returned is 4-byte aligned and is its
\* region's start plus the header size; each successful malloc moves next
\* up by the header size at least; two live blocks have different
\* addresses, and the header of each live block holds the size it was
\* last allocated with.
C15_RegionLayout ==
  (started /\ ~trap /\ Aligned(heap_start)) =>
    /\ Aligned(next)
    /\ \A i \in Live :
         /\ Aligned(allocs[i].ptr)
         /\ ReadWord(mem, region_for_ptr(allocs[i].ptr)) = allocs[i].size
         /\ \A j \in Live : i # j => allocs[i].ptr # allocs[j].ptr
    /\ (call.op = "malloc" /\ Returned) =>
         /\ call.ret = Add(call.pre.next, U(HeaderSize))
         /\ Le(Add(call.pre.next, U(HeaderSize)), next)
         /\ Lt(call.pre.next, Add(call.pre.next, U(HeaderSize)))

====
